---- MODULE Spec2Model ----
(***************************************************************************)
(* Model of src/main.py (n8n-video-renderer): the Thai subtitle chunker,   *)
(* the subtitle timing and ffmpeg filter graph built per scene, the render *)
(* pipeline run as a FastAPI background task, and the process-wide logo    *)
(* and font cache files.                                                   *)
(*                                                                         *)
(* Text is a sequence of characters; a script is given by its token        *)
(* sequence (the result of word_tokenize, or of list(text)).  Times are    *)
(* exact rationals in milliseconds: a window bound is a numerator over the *)
(* denominator total_chars.  Float rounding noise is not modelled; the     *)
(* ".3f" formatting is: it rounds to a millisecond, a tie going either way.*)
(***************************************************************************)
EXTENDS Integers, Sequences, FiniteSets, TLC

\* ---------------------------------------------------------------- bounds
MaxTokens == 4        \* tokens per script in the text specification
MaxWidth == 2         \* largest max_chars_per_line tried besides the default
MaxHeight == 2        \* largest max_lines tried besides the default
MaxScenes == 2        \* scenes per request in the pipeline specification
NumTasks == 2         \* concurrent requests in the cache specification

\* ------------------------------------------------------ program constants
MAX_CHARS_PER_LINE == 32
MAX_LINES == 3
FIRST_SUB_INPUT == 3

\* ------------------------------------------------------------------ text
NL == "\n"
VIS == "x"

Tok(n) == [i \in 1..n |-> VIS]

RECURSIVE JoinNL(_)
JoinNL(lines) ==
  IF lines = <<>> THEN <<>>
  ELSE IF Len(lines) = 1 THEN Head(lines)
  ELSE Head(lines) \o <<NL>> \o JoinNL(Tail(lines))

RECURSIVE SplitNL(_)
SplitNL(text) ==
  IF \A i \in 1..Len(text) : text[i] # NL THEN <<text>>
  ELSE LET k == CHOOSE i \in 1..Len(text) :
                  text[i] = NL /\ \A j \in 1..(i-1) : text[j] # NL
       IN <<SubSeq(text, 1, k-1)>> \o SplitNL(SubSeq(text, k+1, Len(text)))

RECURSIVE VisibleLen(_)
VisibleLen(text) ==
  IF text = <<>> THEN 0
  ELSE (IF Head(text) = NL THEN 0 ELSE 1) + VisibleLen(Tail(text))

WrapInit == [chunks |-> <<>>, current_chunk |-> <<>>, current_line |-> <<>>]

WrapStep(st, word, W, H) ==
  IF Len(st.current_line) + Len(word) <= W
  THEN [st EXCEPT !.current_line = @ \o word]
  ELSE LET cc == IF st.current_line # <<>>
                 THEN Append(st.current_chunk, st.current_line)
                 ELSE st.current_chunk
       IN IF Len(cc) = H
          THEN [chunks |-> Append(st.chunks, JoinNL(cc)),
                current_chunk |-> <<>>, current_line |-> word]
          ELSE [chunks |-> st.chunks, current_chunk |-> cc, current_line |-> word]

RECURSIVE WrapLoop(_, _, _, _)
WrapLoop(st, words, W, H) ==
  IF words = <<>> THEN st
  ELSE WrapLoop(WrapStep(st, Head(words), W, H), Tail(words), W, H)

WrapFlush(st) ==
  LET cc == IF st.current_line # <<>>
            THEN Append(st.current_chunk, st.current_line)
            ELSE st.current_chunk
  IN IF cc # <<>> THEN Append(st.chunks, JoinNL(cc)) ELSE st.chunks

wrap_and_chunk_thai_text(words, W, H) == WrapFlush(WrapLoop(WrapInit, words, W, H))

\* ------------------------------------------- subtitle timing (lines 281-299)
Max(a, b) == IF a >= b THEN a ELSE b

RECURSIVE SumVisible(_)
SumVisible(chunks) ==
  IF chunks = <<>> THEN 0 ELSE VisibleLen(Head(chunks)) + SumVisible(Tail(chunks))

total_chars(chunks) == Max(SumVisible(chunks), 1)

\* chunk_duration as a numerator over total_chars(chunks), in milliseconds
chunk_duration(chunk, duration) == VisibleLen(chunk) * duration

\* the windows (start_t, end_t) of the loop, the cursor current_time carried along
RECURSIVE TimeLoop(_, _, _)
TimeLoop(chunks, duration, current_time) ==
  IF chunks = <<>> THEN <<>>
  ELSE LET end_t == current_time + chunk_duration(Head(chunks), duration)
       IN <<[start_t |-> current_time, end_t |-> end_t]>>
            \o TimeLoop(Tail(chunks), duration, end_t)

Windows(chunks, duration) == TimeLoop(chunks, duration, 0)

\* f"{x:.3f}" of x = num/den milliseconds: the nearest millisecond; on an exact
\* tie the binary value of the float decides, which is not modelled: `up` says it.
Fmt3(num, den, up) ==
  LET q == num \div den
      r == num % den
  IN IF 2 * r < den THEN q
     ELSE IF 2 * r > den THEN q + 1
     ELSE IF up THEN q + 1 ELSE q

\* ffmpeg's between(t, a, b): a <= t <= b
between(t, a, b) == a <= t /\ t <= b

\* ----------------------------------------------- filter graph (lines 284-325)
Lbl(name) == <<name, 0>>
InPad(i) == <<"in", i>>
VNode(k) == <<"v", k>>

in_node(idx) == IF idx = 0 THEN Lbl("bg") ELSE VNode(idx)

out_node(idx, n, has_logo) ==
  LET is_last == (idx = n - 1)
  IN IF is_last /\ ~has_logo THEN Lbl("final_v")
     ELSE IF is_last THEN Lbl("final_sub")
     ELSE VNode(idx + 1)

\* one entry per chunk; ties[i] is the tie direction of the i-th cursor value
sub_filters(chunks, duration, has_logo, ties) ==
  LET n == Len(chunks)
      w == Windows(chunks, duration)
      den == total_chars(chunks)
      fmtEnd(i) == Fmt3(w[i].end_t, den, ties[i])
      fmtStart(i) == IF i = 1 THEN 0 ELSE fmtEnd(i - 1)
  IN [i \in 1..n |->
        [ins |-> <<in_node(i - 1), InPad(FIRST_SUB_INPUT + (i - 1))>>,
         out |-> out_node(i - 1, n, has_logo),
         gate |-> [from |-> fmtStart(i), to |-> fmtEnd(i)]]]

NoGate == [from |-> 0, to |-> -1]

base_parts ==
  << [ins |-> <<InPad(0)>>, out |-> Lbl("bg_blur"), gate |-> NoGate],
     [ins |-> <<InPad(0)>>, out |-> Lbl("fg"), gate |-> NoGate],
     [ins |-> <<Lbl("bg_blur"), Lbl("fg")>>, out |-> Lbl("bg_base"), gate |-> NoGate],
     [ins |-> <<Lbl("bg_base"), InPad(2)>>, out |-> Lbl("bg"), gate |-> NoGate] >>

logo_parts(n) ==
  << [ins |-> <<InPad(FIRST_SUB_INPUT + n)>>, out |-> Lbl("logo"), gate |-> NoGate],
     [ins |-> <<Lbl("final_sub"), Lbl("logo")>>, out |-> Lbl("final_v"), gate |-> NoGate] >>

fc_parts(subs, has_logo) ==
  base_parts \o subs \o (IF has_logo THEN logo_parts(Len(subs)) ELSE <<>>)

\* the -i arguments of cmd, in command-line order (input index = position - 1)
cmd_inputs(n, has_logo) ==
  <<Lbl("img"), Lbl("aud"), Lbl("panel")>>
    \o [i \in 1..n |-> <<"sub", i - 1>>]
    \o (IF has_logo THEN <<Lbl("logo")>> ELSE <<>>)

\* what ffmpeg requires of -filter_complex and -map "[final_v]"
Produced(parts, k) == {parts[j].out : j \in 1..(k - 1)}

GraphWellFormed(parts, inputs) ==
  /\ Cardinality({k \in 1..Len(parts) : parts[k].out = Lbl("final_v")}) = 1
  /\ \A k \in 1..Len(parts) : \A a \in 1..Len(parts[k].ins) :
       LET l == parts[k].ins[a]
       IN IF l[1] = "in" THEN l[2] < Len(inputs) ELSE l \in Produced(parts, k)

\* ------------------------------------------------------------ input domains
TokenSet == {Tok(1), <<NL>>, Tok(MaxWidth + 1), Tok(MAX_CHARS_PER_LINE)}

RECURSIVE SeqsUpTo(_, _)
SeqsUpTo(S, n) ==
  IF n = 0 THEN {<<>>}
  ELSE LET shorter == SeqsUpTo(S, n - 1)
       IN shorter \cup {Append(q, x) : q \in {r \in shorter : Len(r) = n - 1}, x \in S}

Scripts == SeqsUpTo(TokenSet, MaxTokens)
Widths == 1..MaxWidth
Heights == 1..MaxHeight
Durations == {0, 2, 4000}          \* narration length in milliseconds

\* SceneItem.image_base64: a decodable image, base64 that decodes to bytes that
\* are no image (the empty string included), or text b64decode raises on
Payloads == {"valid", "garbage", "badpad"}
PipeScripts == {<<>>, <<Tok(2)>>}
MaxOrder == MaxScenes
SceneItems ==
  [scene_number : 1..MaxOrder, script : PipeScripts, image_base64 : Payloads]
Distinct(q) == \A a, b \in 1..Len(q) : a # b => q[a].scene_number # q[b].scene_number
Requests == {q \in SeqsUpTo(SceneItems, MaxScenes) : Distinct(q)}
CacheRequests ==
  {<<[scene_number |-> 1, script |-> <<Tok(2)>>, image_base64 |-> "valid"]>>}
HttpOutcomes == {"ok200", "http404", "error"}

\* ------------------------------------------------------------------- state
VARIABLES
  txt,          \* the text specification: one call of the chunker and one scene
  task,         \* per request: the handler's response and the background task
  loop_owner,   \* the task running on the event loop (0: the loop is idle)
  logo_file,    \* my_logo.png in the process directory
  font_file,    \* Sarabun-Bold.ttf in the process directory
  gcs_enabled   \* storage and GCS_BUCKET (line 338)

vars == <<txt, task, loop_owner, logo_file, font_file, gcs_enabled>>

AllTasks == 1..NumTasks
NoImage == <<"none", 0>>
Black == <<"black", 0>>

\* -------------------------------------------------------------- cache files
\* setup_logo: the file after the call, given the HTTP outcome of a download
setup_logo(file, http) ==
  IF file # "absent" THEN file
  ELSE IF http = "ok200" THEN "valid" ELSE "absent"

\* get_font: r.content is written whatever the status code is
get_font(file, http) ==
  IF file # "absent" THEN file
  ELSE IF http = "ok200" THEN "valid"
  ELSE IF http = "http404" THEN "invalid"
  ELSE "absent"

\* the HTTP outcomes a call can meet: a download happens only without the file
Fetch(file) == IF file = "absent" THEN HttpOutcomes ELSE {"none"}

\* whether ffmpeg accepts the graph of a scene; its labels and input indices
\* depend on the number of chunks and on has_logo, not on the times in the gates
SceneGraphOk(chunks, has_logo) ==
  LET subs == sub_filters(chunks, 0, has_logo, [i \in 1..Len(chunks) |-> TRUE])
  IN GraphWellFormed(fc_parts(subs, has_logo), cmd_inputs(Len(chunks), has_logo))

\* ---------------------------------------------------------------- pipeline
create_render_job_NoCheck(data) ==
  [status |-> "accepted", address |-> "none", queued |-> TRUE]

create_render_job(data) ==
  IF data = <<>>
  THEN [status |-> "http400", address |-> "none", queued |-> FALSE]
  ELSE [status |-> "accepted", address |-> "none", queued |-> TRUE]

RECURSIVE Insert(_, _)
Insert(s, sorted) ==
  IF sorted = <<>> THEN <<s>>
  ELSE IF Head(sorted).scene_number <= s.scene_number
       THEN <<Head(sorted)>> \o Insert(s, Tail(sorted))
       ELSE <<s>> \o sorted

SortScenes_Unsorted(data) == data

RECURSIVE SortScenes(_)
SortScenes(data) ==
  IF data = <<>> THEN <<>>
  ELSE Insert(data[Len(data)], SortScenes(SubSeq(data, 1, Len(data) - 1)))

\* lines 260-273: the file img_p of scene s and last_valid_image afterwards
load_image(s, last_valid_image, img) ==
  LET n == s.scene_number
  IN IF s.image_base64 = "valid"
     THEN [img |-> [img EXCEPT ![n] = <<"img", n>>], last |-> n]
     ELSE IF s.image_base64 = "garbage"
     THEN [img |-> [img EXCEPT ![n] = <<"raw", n>>], last |-> n]
     ELSE IF last_valid_image # 0 /\ img[last_valid_image] # NoImage
     THEN [img |-> [img EXCEPT ![n] = img[last_valid_image]], last |-> last_valid_image]
     ELSE [img |-> [img EXCEPT ![n] = Black], last |-> n]

Decodable(content) == content[1] \in {"img", "black"}

\* _run_ffmpeg: raise on a non-zero return code
run_ffmpeg_Ignore(rc) == "ok"

run_ffmpeg(rc) == IF rc # 0 THEN "raise" ELSE "ok"

IdleTask ==
  [pc |-> "idle", data |-> <<>>,
   response |-> [status |-> "none", address |-> "none"],
   workdir |-> "none", has_logo |-> FALSE, scenes |-> <<>>, i |-> 0,
   last_valid_image |-> 0, img |-> [n \in 1..MaxOrder |-> NoImage],
   enc |-> <<>>, cmd_ok |-> FALSE, scene_mp4s |-> <<>>, concat_list |-> <<>>,
   concat_runs |-> 0, uploads |-> 0, uploaded |-> FALSE,
   failed |-> "none", started |-> 0]

IdleTxt ==
  [pc |-> "off", words |-> <<>>, W |-> 1, H |-> 1, duration |-> 0,
   has_logo |-> FALSE, out |-> <<>>, chunks |-> <<>>, total_chars |-> 1,
   windows |-> <<>>, parts |-> <<>>, inputs |-> <<>>]

\* ------------------------------------------------- text specification
\* One call wrap_and_chunk_thai_text(words, W, H), and the subtitle part of one
\* scene of render_video_task (lines 281-325) on the same script.
TxtInit ==
  /\ txt \in [pc : {"input"}, words : Scripts, W : Widths, H : Heights,
              duration : Durations, has_logo : BOOLEAN, out : {<<>>},
              chunks : {<<>>}, total_chars : {1}, windows : {<<>>},
              parts : {<<>>}, inputs : {<<>>}]
  /\ task = [t \in AllTasks |-> IdleTask]
  /\ loop_owner = 0
  /\ logo_file = "absent"
  /\ font_file = "absent"
  /\ gcs_enabled = FALSE

CallChunker ==
  /\ txt.pc = "input"
  /\ txt' = [txt EXCEPT !.pc = "chunked",
                        !.out = wrap_and_chunk_thai_text(txt.words, txt.W, txt.H)]
  /\ UNCHANGED <<task, loop_owner, logo_file, font_file, gcs_enabled>>

ComposeScene ==
  /\ txt.pc = "chunked"
  /\ LET chunks == wrap_and_chunk_thai_text(txt.words, MAX_CHARS_PER_LINE, MAX_LINES)
     IN \E ties \in [1..Len(chunks) -> BOOLEAN] :
          LET subs == sub_filters(chunks, txt.duration, txt.has_logo, ties)
          IN txt' = [txt EXCEPT !.pc = "composed",
                                !.chunks = chunks,
                                !.total_chars = total_chars(chunks),
                                !.windows = Windows(chunks, txt.duration),
                                !.parts = fc_parts(subs, txt.has_logo),
                                !.inputs = cmd_inputs(Len(chunks), txt.has_logo)]
  /\ UNCHANGED <<task, loop_owner, logo_file, font_file, gcs_enabled>>

TxtNext == CallChunker \/ ComposeScene

SpecText == TxtInit /\ [][TxtNext]_vars

\* ------------------------------------------------ claims of the text part
Composed == txt.pc = "composed"
NChunks == Len(txt.chunks)
SubPart(i) == txt.parts[Len(base_parts) + i]
Enabled(i, t) == between(t, SubPart(i).gate.from, SubPart(i).gate.to)

\* C1: the subtitle windows of a scene are contiguous, the first starts at 0,
\* the last ends at total_duration, and window i lasts
\* total_duration * visible(chunk i) / (sum of visible characters of all chunks).
\* Times are numerators over txt.total_chars.
C1_WindowsCoverDuration ==
  (Composed /\ NChunks > 0) =>
    /\ txt.windows[1].start_t = 0
    /\ \A i \in 1..(NChunks - 1) : txt.windows[i + 1].start_t = txt.windows[i].end_t
    /\ txt.windows[NChunks].end_t = txt.duration * txt.total_chars
    /\ \A i \in 1..NChunks :
         (txt.windows[i].end_t - txt.windows[i].start_t) * SumVisible(txt.chunks)
           = txt.duration * VisibleLen(txt.chunks[i]) * txt.total_chars

\* C2: wrap_and_chunk_thai_text(words, W, H) returns no chunk with a line longer
\* than W characters and no chunk with more than H lines.  Stated for scripts
\* without newline characters, where the lines of a chunk are exactly the lines
\* the chunker closed (a newline inside a token would add lines of its own).
NoNewlineIn(words) ==
  \A k \in 1..Len(words) : \A j \in 1..Len(words[k]) : words[k][j] # NL

C2_LinesFit ==
  (txt.pc # "input" /\ NoNewlineIn(txt.words)) =>
    \A c \in 1..Len(txt.out) :
      LET lines == SplitNL(txt.out[c])
      IN /\ Len(lines) <= txt.H
         /\ \A l \in 1..Len(lines) : Len(lines[l]) <= txt.W

\* C3: at every instant t of the scene, 0 <= t < duration on the millisecond
\* grid the gates are written on, at most one subtitle layer is enabled, and a
\* layer is enabled only inside its own window [start, end) as written in its
\* gate.  Stated for scenes with at least one visible character, so that no
\* window is empty for the reason C1 fails.
C3_GatesExclusive ==
  (Composed /\ SumVisible(txt.chunks) > 0) =>
    \A t \in 0..(txt.duration - 1) :
      /\ Cardinality({i \in 1..NChunks : Enabled(i, t)}) <= 1
      /\ \A i \in 1..NChunks :
           Enabled(i, t) => (SubPart(i).gate.from <= t /\ t < SubPart(i).gate.to)

\* C9: for every number of chunks n >= 0, with or without a logo, [final_v] is
\* produced by exactly one node, every consumed label is produced earlier, and
\* every subtitle and logo node reads the input its bitmap was supplied at.
C9_GraphWellFormed ==
  Composed =>
    /\ GraphWellFormed(txt.parts, txt.inputs)
    /\ \A i \in 1..NChunks :
         LET pad == SubPart(i).ins[2]
         IN pad[1] = "in" /\ pad[2] + 1 <= Len(txt.inputs)
            /\ txt.inputs[pad[2] + 1] = <<"sub", i - 1>>
    /\ txt.has_logo =>
         LET pad == txt.parts[Len(base_parts) + NChunks + 1].ins[1]
         IN pad[1] = "in" /\ pad[2] + 1 <= Len(txt.inputs)
            /\ txt.inputs[pad[2] + 1] = Lbl("logo")

\* ------------------------------------------------------- pipeline actions
\* A request is handled by create_render_job, which queues render_video_task
\* as a background task.  Handlers and tasks are coroutines of one event loop:
\* a task gives the loop up only at `await tts.save`; requests.get, ffmpeg
\* (subprocess.run) and the upload block the loop until they return.
Set(t, r) == task' = [task EXCEPT ![t] = r]

\* after the last scene: lines 330-335 up to the call of ffmpeg -f concat
ToConcat(r) ==
  [r EXCEPT !.concat_list = r.scene_mp4s, !.concat_runs = @ + 1, !.pc = "concat_wait"]

\* POST /render (lines 351-358)
CreateRenderJob(t, data) ==
  /\ task[t].pc = "idle"
  /\ loop_owner = 0
  /\ LET r == create_render_job(data)
     IN Set(t, [task[t] EXCEPT
                  !.data = data,
                  !.response = [status |-> r.status, address |-> r.address],
                  !.pc = IF r.queued THEN "queued" ELSE "rejected"])
  /\ UNCHANGED <<txt, loop_owner, logo_file, font_file, gcs_enabled>>

\* lines 234-252: mkdtemp, setup_logo, the directories, sorted(), the info panel
\* (whose get_font may download the font)
StartTask(t) ==
  /\ task[t].pc = "queued"
  /\ loop_owner = 0
  /\ \E logo_http \in Fetch(logo_file), font_http \in Fetch(font_file) :
       /\ logo_file' = setup_logo(logo_file, logo_http)
       /\ font_file' = get_font(font_file, font_http)
       /\ LET scenes == SortScenes(task[t].data)
              r == [task[t] EXCEPT
                      !.workdir = "exists",
                      !.has_logo = (logo_file' # "absent"),
                      !.scenes = scenes,
                      !.i = 1,
                      !.pc = "scene"]
          IN Set(t, IF scenes = <<>> THEN ToConcat(r) ELSE r)
  /\ loop_owner' = t
  /\ UNCHANGED <<txt, gcs_enabled>>

\* lines 255-277: the image of scene i, then await tts.save
SceneImage(t) ==
  /\ task[t].pc = "scene"
  /\ loop_owner = t
  /\ LET s == task[t].scenes[task[t].i]
         r == load_image(s, task[t].last_valid_image, task[t].img)
     IN Set(t, [task[t] EXCEPT
                  !.img = r.img,
                  !.last_valid_image = r.last,
                  !.started = @ + 1,
                  !.pc = "tts_wait"])
  /\ loop_owner' = 0
  /\ UNCHANGED <<txt, logo_file, font_file, gcs_enabled>>

\* await tts.save raises: the except clause is reached
TtsFail(t) ==
  /\ task[t].pc = "tts_wait"
  /\ loop_owner = 0
  /\ Set(t, [task[t] EXCEPT !.failed = "tts", !.pc = "cleanup"])
  /\ loop_owner' = t
  /\ UNCHANGED <<txt, logo_file, font_file, gcs_enabled>>

\* tts.save returns; lines 278-326 up to the call of ffmpeg: the chunks, one
\* subtitle bitmap per chunk (get_font), the filter graph and the command.  The
\* probed duration only sets the times in the gates and -t, which nothing in
\* the pipeline state depends on (ComposeScene carries them).
TtsDone(t) ==
  /\ task[t].pc = "tts_wait"
  /\ loop_owner = 0
  /\ LET s == task[t].scenes[task[t].i]
         chunks == wrap_and_chunk_thai_text(s.script, MAX_CHARS_PER_LINE, MAX_LINES)
         fetch == IF chunks = <<>> THEN {"none"} ELSE Fetch(font_file)
     IN \E font_http \in fetch :
          /\ font_file' = IF chunks = <<>> THEN font_file
                          ELSE get_font(font_file, font_http)
          /\ Set(t, [task[t] EXCEPT
                       !.enc = Append(@, [scene_number |-> s.scene_number,
                                          image_base64 |-> s.image_base64,
                                          image |-> task[t].img[s.scene_number]]),
                       !.cmd_ok = SceneGraphOk(chunks, task[t].has_logo)
                                    /\ Decodable(task[t].img[s.scene_number]),
                       !.pc = "ffmpeg_wait"])
  /\ loop_owner' = t
  /\ UNCHANGED <<txt, logo_file, gcs_enabled>>

\* ffmpeg returns for scene i (line 326); rc is 0 only for a command ffmpeg can
\* run: a well-formed graph over a decodable image
EncodeReturn(t, rc) ==
  /\ task[t].pc = "ffmpeg_wait"
  /\ loop_owner = t
  /\ rc = 0 => task[t].cmd_ok
  /\ LET r0 == [task[t] EXCEPT !.failed = IF rc # 0 THEN "encode" ELSE @]
     IN IF run_ffmpeg(rc) = "raise"
        THEN Set(t, [r0 EXCEPT !.pc = "cleanup"])
        ELSE LET r1 == [r0 EXCEPT
                          !.scene_mp4s = Append(@, r0.scenes[r0.i].scene_number),
                          !.i = @ + 1]
             IN IF r1.i <= Len(r1.scenes)
                THEN Set(t, [r1 EXCEPT !.pc = "scene"])
                ELSE Set(t, ToConcat(r1))
  /\ UNCHANGED <<txt, loop_owner, logo_file, font_file, gcs_enabled>>

\* ffmpeg -f concat returns (line 335); then the upload is started (338-341)
ConcatReturn(t, rc) ==
  /\ task[t].pc = "concat_wait"
  /\ loop_owner = t
  /\ rc = 0 => task[t].concat_list # <<>>
  /\ LET r0 == [task[t] EXCEPT !.failed = IF rc # 0 THEN "concat" ELSE @]
     IN IF run_ffmpeg(rc) = "raise"
        THEN Set(t, [r0 EXCEPT !.pc = "cleanup"])
        ELSE IF gcs_enabled
        THEN Set(t, [r0 EXCEPT !.uploads = @ + 1, !.pc = "upload_wait"])
        ELSE Set(t, [r0 EXCEPT !.pc = "cleanup"])
  /\ UNCHANGED <<txt, loop_owner, logo_file, font_file, gcs_enabled>>

\* upload_from_filename returns or raises (line 341)
UploadReturn(t, ok) ==
  /\ task[t].pc = "upload_wait"
  /\ loop_owner = t
  /\ Set(t, [task[t] EXCEPT !.uploaded = ok,
                            !.failed = IF ok THEN @ ELSE "upload",
                            !.pc = "cleanup"])
  /\ UNCHANGED <<txt, loop_owner, logo_file, font_file, gcs_enabled>>

\* except / finally (lines 344-349): shutil.rmtree(workdir)
Cleanup(t) ==
  /\ task[t].pc = "cleanup"
  /\ loop_owner = t
  /\ Set(t, [task[t] EXCEPT !.workdir = "removed", !.pc = "done"])
  /\ loop_owner' = 0
  /\ UNCHANGED <<txt, logo_file, font_file, gcs_enabled>>

\* a fresh process directory: neither cache file has been downloaded yet
PipeInit ==
  /\ txt = IdleTxt
  /\ task = [t \in AllTasks |-> IdleTask]
  /\ loop_owner = 0
  /\ logo_file = "absent"
  /\ font_file = "absent"
  /\ gcs_enabled \in BOOLEAN

Step(t) ==
  \/ StartTask(t)
  \/ SceneImage(t)
  \/ TtsFail(t)
  \/ TtsDone(t)
  \/ \E rc \in {0, 1} : EncodeReturn(t, rc)
  \/ \E rc \in {0, 1} : ConcatReturn(t, rc)
  \/ \E ok \in BOOLEAN : UploadReturn(t, ok)
  \/ Cleanup(t)

\* a request arrives at POST /render
Arrive(t, requests) ==
  /\ task[t].pc = "idle"
  /\ \E data \in requests : CreateRenderJob(t, data)

\* one request
Next == Arrive(1, Requests) \/ Step(1)

Spec == PipeInit /\ [][Next]_vars

\* The event loop resumes a coroutine that is ready to run; nothing in the code
\* bounds tts.save, subprocess.run or upload_from_filename, so their return is
\* left to the outside world.
ProgramStep(t) == StartTask(t) \/ SceneImage(t) \/ Cleanup(t)

FairSpec == Spec /\ WF_vars(ProgramStep(1))

\* requests racing on the cache files of one process
CacheNext == \E t \in AllTasks : Arrive(t, CacheRequests) \/ Step(t)

CacheSpec == PipeInit /\ [][CacheNext]_vars

\* ---------------------------------------------- claims of the pipeline
Ascending(q) == \A a, b \in 1..Len(q) : a < b => q[a] < q[b]
Numbers(q) == {q[k].scene_number : k \in 1..Len(q)}
Range(q) == {q[k] : k \in 1..Len(q)}

\* C4: whatever order the scenes are submitted in, scenes are processed one at
\* a time in ascending scene order, and the list handed to the concatenation
\* names the clips in ascending scene order, one entry per scene of the request.
C4_AscendingOrder ==
  \A t \in AllTasks :
    /\ Ascending([k \in 1..Len(task[t].enc) |-> task[t].enc[k].scene_number])
    /\ Ascending(task[t].scene_mp4s)
    /\ task[t].started - Len(task[t].scene_mp4s) \in {0, 1}
    /\ task[t].concat_runs > 0 =>
         /\ Ascending(task[t].concat_list)
         /\ Len(task[t].concat_list) = Len(task[t].data)
         /\ Range(task[t].concat_list) = Numbers(task[t].data)

C4_Witness ==
  /\ task[1].concat_runs > 0
  /\ Len(task[1].data) = 2
  /\ task[1].data[1].scene_number > task[1].data[2].scene_number
  /\ task[1].concat_list = <<task[1].data[2].scene_number, task[1].data[1].scene_number>>

\* C5: every run that has created its scratch directory eventually removes it,
\* also when an external call does not return.
C5_ScratchRemoved ==
  \A t \in AllTasks : (task[t].workdir = "exists") ~> (task[t].workdir = "removed")

\* C6: a scene whose image payload is invalid is encoded with the image of the
\* most recent earlier scene whose payload was valid, or with a black frame when
\* there is none (an image ffmpeg can decode, so the scene does not abort the
\* request).
ExpectedImage(enc, k) ==
  LET earlier == {j \in 1..(k - 1) : enc[j].image_base64 = "valid"}
  IN IF earlier = {} THEN Black
     ELSE <<"img", enc[CHOOSE j \in earlier : \A m \in earlier : m <= j].scene_number>>

C6_ImageFallback ==
  \A t \in AllTasks : \A k \in 1..Len(task[t].enc) :
    task[t].enc[k].image_base64 # "valid" =>
      task[t].enc[k].image = ExpectedImage(task[t].enc, k)

C8_Inv(t) ==
  /\ task[t].uploads <= 1
  /\ task[t].uploads = 1 =>
       /\ Len(task[t].scene_mp4s) = Len(task[t].data)
       /\ task[t].concat_runs = 1
       /\ task[t].failed \in {"none", "upload"}
  /\ task[t].concat_runs > 0 => Len(task[t].concat_list) = Len(task[t].data)
  /\ task[t].failed \in {"tts", "encode"} =>
       (task[t].concat_runs = 0 /\ task[t].uploads = 0)
  /\ task[t].failed = "concat" => task[t].uploads = 0

C8_Halted(t) ==
  task[t].failed \in {"tts", "encode", "concat"} =>
    /\ task'[t].started = task[t].started
    /\ task'[t].enc = task[t].enc
    /\ task'[t].scene_mp4s = task[t].scene_mp4s
    /\ task'[t].concat_runs = task[t].concat_runs
    /\ task'[t].uploads = task[t].uploads

C8_AbortOnFailure ==
  /\ [](\A t \in AllTasks : C8_Inv(t))
  /\ [][\A t \in AllTasks : C8_Halted(t)]_vars

C8_Witness ==
  /\ task[1].pc = "done"
  /\ task[1].failed = "encode"
  /\ Len(task[1].data) = 2
  /\ task[1].started = 1
  /\ task[1].concat_runs = 0

\* C10: the cache files are safe under concurrent first use: a cache file that
\* exists holds a successfully fetched asset, so no request reads an invalid one.
C10_CacheValid ==
  /\ logo_file \in {"absent", "valid"}
  /\ font_file \in {"absent", "valid"}

====
